---- MODULE Spec2Model ----
(***************************************************************************)
(* Model of statica: the pull-through CachingFS (caching_fs.go) and the    *)
(* AssetServer request handler (statica.go).                               *)
(*                                                                         *)
(* Strings that the code inspects (paths, prefixes, suffixes) are          *)
(* sequences of one-character strings, so that HasPrefix / HasSuffix /     *)
(* TrimPrefix are computed, not assumed.  Byte contents, error values and  *)
(* header values are opaque strings.                                       *)
(*                                                                         *)
(* SpecCache     : concurrent callers of CachingFS.ReadFile and Open.      *)
(* SpecCacheHTTP : concurrent requests to an AssetServer whose filesystem  *)
(*                 is a CachingFS.                                         *)
(* SpecServer    : construction, configuration and sequential serving of   *)
(*                 an AssetServer on a plain filesystem.                   *)
(*                                                                         *)
(* The cache itself (otter) is a library: its Get is modelled by its       *)
(* contract at the call in CachingFS.ReadFile: a resident value is         *)
(* returned without a load; callers missing on one key share one loader    *)
(* call; a failed load stores nothing; entries are dropped once the cache  *)
(* holds more than MaximumSize of them.                                    *)
(***************************************************************************)
EXTENDS Integers, Sequences, FiniteSets, TLC

VARIABLES
    store,      \* backing store: path -> result of its ReadFile
    cfs,        \* the CachingFS instance (options it was built with) or NoCFS
    cache,      \* resident entries of cfs.cache: path -> bytes or NoEntry
    inflight,   \* path -> TRUE while a loader call for the key is running
    call,       \* per caller: position and locals of its current call
    last,       \* the calls that returned in the step that led to this state
    changes,    \* number of times the backing store's content was changed
    calls,      \* number of calls callers have made so far
    evicted,    \* paths that have been evicted at least once
    failed,     \* paths a load of which has failed at least once
    server,     \* the AssetServer instance or NoServer
    built,      \* inputs and results of the last constructor call
    hfAssigned, \* TRUE once a caller has assigned server.HeaderFunc
    resp,       \* the response written by the last sequential ServeHTTP
    probe       \* the direct call of a server method made in the last step

vars == <<store, cfs, cache, inflight, call, last, changes, calls, evicted, failed,
          server, built, hfAssigned, resp, probe>>

----------------------------------------------------------------------------
(* Bounds *)

NumCallers    == 2
NumRequesters == 1
MaxCalls      == 3
MaxChanges    == 1

\* the callers of the CachingFS; those that serve requests through a server
Procs      == 1..NumCallers
Requesters == 1..NumRequesters

----------------------------------------------------------------------------
(* Strings *)

HasPrefix(s, prefix) ==
    /\ Len(prefix) <= Len(s)
    /\ SubSeq(s, 1, Len(prefix)) = prefix

HasSuffix(s, suffix) ==
    /\ Len(suffix) <= Len(s)
    /\ SubSeq(s, Len(s) - Len(suffix) + 1, Len(s)) = suffix

TrimPrefix(s, prefix) ==
    IF HasPrefix(s, prefix) THEN SubSeq(s, Len(prefix) + 1, Len(s)) ELSE s

TrimSuffix(s, suffix) ==
    IF HasSuffix(s, suffix) THEN SubSeq(s, 1, Len(s) - Len(suffix)) ELSE s

\* does sub occur somewhere in s (an unanchored literal pattern)
Contains(s, sub) ==
    \E i \in 1..(Len(s) + 1) :
        /\ i + Len(sub) - 1 <= Len(s)
        /\ SubSeq(s, i, i + Len(sub) - 1) = sub

EmptyStr == <<>>

----------------------------------------------------------------------------
(* Errors *)

NilErr           == "nil"
fsErrNotExist    == "fs.ErrNotExist"
fsErrPermission  == "fs.ErrPermission"
fsErrInvalid     == "fs.ErrInvalid"
PathErrNotExist  == "PathError{fs.ErrNotExist}"
PathErrPermission == "PathError{fs.ErrPermission}"
otterErrNotFound == "otter.ErrNotFound"
ErrEmptyRoute    == "ErrEmptyRoute"
ErrNilFS         == "ErrNilFS"
ErrAbsoluteFSPrefix == "ErrAbsoluteFSPrefix"
ErrBadFSPrefix      == "ErrBadFSPrefix"
ErrBadBrotliSuffix  == "ErrBadBrotliSuffix"

\* the error a wrapping error unwraps to (fs.PathError.Unwrap)
Unwrap(err) ==
    CASE err = PathErrNotExist   -> fsErrNotExist
      [] err = PathErrPermission -> fsErrPermission
      [] OTHER                   -> NilErr

\* errors.Is over the (one level deep) unwrap chain
ErrorsIs(err, target) ==
    \/ err = target
    \/ (Unwrap(err) # NilErr /\ Unwrap(err) = target)

\* err.Error()
ErrorText(err) ==
    CASE err = fsErrNotExist     -> "file does not exist"
      [] err = fsErrPermission   -> "permission denied"
      [] err = fsErrInvalid      -> "invalid argument"
      [] err = PathErrNotExist   -> "open: file does not exist"
      [] err = PathErrPermission -> "open: permission denied"
      [] err = otterErrNotFound  -> "otter: the entry was not found in the data source"
      [] OTHER                   -> err

NilBytes == "nil"

Ok(data)  == [data |-> data, err |-> NilErr]
Fail(err) == [data |-> NilBytes, err |-> err]

----------------------------------------------------------------------------
(* Backing store *)

PathA   == <<"a">>
PathABr == <<"a", ".", "b", "r">>
PathB   == <<"b">>

CachePaths == {PathA, PathABr, PathB}

Bytes == {"d1", "d2", "d3", "d4"}

StoreErrors == {fsErrNotExist, PathErrNotExist, fsErrPermission,
                PathErrPermission, fsErrInvalid}

StoreResults == {Ok(b) : b \in Bytes} \cup {Fail(e) : e \in StoreErrors}

\* the stores a run can start from: every path present, one present, none
InitialStores ==
    { (PathA :> Ok("d1") @@ PathABr :> Ok("d2") @@ PathB :> Ok("d3")),
      (PathA :> Ok("d1") @@ PathABr :> Fail(PathErrNotExist)
                         @@ PathB   :> Fail(fsErrPermission)),
      (PathA :> Fail(fsErrNotExist) @@ PathABr :> Fail(PathErrPermission)
                                    @@ PathB   :> Fail(fsErrInvalid)) }

\* how the content of a path changes: a file is rewritten, a rewritten file
\* is removed, a path that failed becomes readable
NextContent(r) ==
    IF r.err # NilErr THEN Ok("d4")
    ELSE IF r.data = "d4" THEN Fail(PathErrNotExist)
    ELSE Ok("d4")

\* the backing store's ReadFile
StoreReadFile(st, p) ==
    IF p \in DOMAIN st THEN st[p] ELSE Fail(PathErrNotExist)

\* the backing store's Open: a stream over the file's bytes, or its error
StoreOpen(st, p) ==
    IF p \in DOMAIN st THEN st[p] ELSE Fail(PathErrNotExist)

----------------------------------------------------------------------------
(* FSLoader and CachingFS (caching_fs.go) *)

DefaultMaxEntries      == 1000
DefaultInitialCapacity == 100

NoCFS   == [isNil |-> TRUE, files |-> "nil", MaximumSize |-> 0, InitialCapacity |-> 0]
NoEntry == "no-entry"

NilOption == [isNil |-> TRUE, MaxEntryCount |-> 0, InitialCapacity |-> 0]
Option(maxEntries, initialCapacity) ==
    [isNil |-> FALSE, MaxEntryCount |-> maxEntries, InitialCapacity |-> initialCapacity]

\* the options callers pass: none, zero values, small caches, a negative count
CacheOptions ==
    {NilOption, Option(0, 0), Option(1, 1), Option(2, 0), Option(-1, 5)}

\* a faulty loader that reports every store error as not-found
load_AllNotFound(r) ==
    IF r.err # NilErr THEN Fail(otterErrNotFound) ELSE Ok(r.data)

\* FSLoader.load applied to what loader.files.ReadFile returned
load(r) ==
    IF r.err # NilErr
    THEN IF ErrorsIs(r.err, fsErrNotExist) THEN Fail(otterErrNotFound) ELSE Fail(r.err)
    ELSE Ok(r.data)

\* NewCachingFS: (instance, error)
NewCachingFSResult(baseFS, option) ==
    IF baseFS = "nil"
    THEN [cfs |-> NoCFS, err |-> ErrNilFS]
    ELSE [cfs |-> [isNil |-> FALSE, files |-> baseFS,
                   MaximumSize |->
                       IF ~option.isNil /\ option.MaxEntryCount > 0
                       THEN option.MaxEntryCount ELSE DefaultMaxEntries,
                   InitialCapacity |->
                       IF ~option.isNil /\ option.InitialCapacity > 0
                       THEN option.InitialCapacity ELSE DefaultInitialCapacity],
          err |-> NilErr]

\* a faulty ReadFile that hands the cache's error to its caller untranslated
ReadFileReturn_KeepsOtterErr(g) ==
    IF g.err # NilErr THEN Fail(g.err) ELSE Ok(g.data)

\* CachingFS.ReadFile applied to what cfs.cache.Get returned
ReadFileReturn(g) ==
    IF g.err # NilErr
    THEN Fail(IF ErrorsIs(g.err, otterErrNotFound) THEN fsErrNotExist ELSE g.err)
    ELSE Ok(g.data)

\* cache.Get: the value of a resident entry is returned without a load
Resident(cch, p) == cch[p] # NoEntry

ResidentCount(cch) == Cardinality({p \in DOMAIN cch : Resident(cch, p)})

\* a faulty cache in which every missing caller runs its own load
JoinsFlight_None(fl, p) == FALSE

\* a faulty cache in which a missing caller waits for any running load, as
\* under one global lock
JoinsFlight_AnyKey(fl, p) == \E q \in DOMAIN fl : fl[q]

\* cache.Get: a caller missing on p while a load of p runs waits for that load
JoinsFlight(fl, p) == fl[p]

\* a faulty cache that keeps the error of a failed load as the entry
AfterLoad_CachesErrors(cch, p, lr) ==
    [cch EXCEPT ![p] = IF lr.err = NilErr THEN lr.data ELSE lr.err]

\* a faulty cache that remembers a not-found load as an entry without bytes
AfterLoad_RemembersMiss(cch, p, lr) ==
    [cch EXCEPT ![p] = IF lr.err = NilErr THEN lr.data
                       ELSE IF ErrorsIs(lr.err, otterErrNotFound) THEN NilBytes
                       ELSE NoEntry]

\* cache.Get: what the cache holds for p once the loader has returned lr;
\* a failed load stores nothing
AfterLoad(cch, p, lr) ==
    [cch EXCEPT ![p] = IF lr.err = NilErr THEN lr.data ELSE NoEntry]

\* a faulty eviction that leaves the dropped bytes under the other resident keys
AfterEvict_Shift(cch, p) ==
    [q \in DOMAIN cch |->
        IF q = p THEN NoEntry
        ELSE IF Resident(cch, q) THEN cch[p] ELSE cch[q]]

\* the cache after its eviction policy has dropped the entry of p
AfterEvict(cch, p) == [cch EXCEPT ![p] = NoEntry]

\* a faulty cache that reads the store again on a resident key
HitResult_Reloads(cch, st, p) == load(StoreReadFile(st, p))

\* cache.Get on a resident key
HitResult(cch, st, p) == Ok(cch[p])

\* a faulty Open that goes through the cache as ReadFile does
OpenResult_FromCache(cch, st, p) ==
    IF Resident(cch, p) THEN Ok(cch[p]) ELSE ReadFileReturn(load(StoreOpen(st, p)))

\* CachingFS.Open: forwarded to the base filesystem
OpenResult(cch, st, p) == StoreOpen(st, p)

----------------------------------------------------------------------------
(* http.ResponseWriter *)

\* a fresh recorder: no status written, no header, no body
NewRecorder == [status |-> 0, sent |-> <<>>, header |-> <<>>, body |-> <<>>]

\* w.Header().Add(k, v)
HeaderAdd(w, k, v) == [w EXCEPT !.header = Append(@, <<k, v>>)]

\* w.WriteHeader(code): the first call commits the status and the headers set so far
WriteHeader(w, code) ==
    IF w.status # 0 THEN w ELSE [w EXCEPT !.status = code, !.sent = w.header]

\* w.Write(data): writes the status 200 first if none was written
Write(w, data) ==
    LET w1 == IF w.status = 0 THEN WriteHeader(w, 200) ELSE w
    IN  [w1 EXCEPT !.body = Append(@, data)]

\* Header.Get: the first value stored under k, "" when there is none
HeaderGet(hdrs, k) ==
    IF \E i \in 1..Len(hdrs) : hdrs[i][1] = k
    THEN hdrs[CHOOSE i \in 1..Len(hdrs) :
                  /\ hdrs[i][1] = k
                  /\ \A j \in 1..(i - 1) : hdrs[j][1] # k][2]
    ELSE ""

----------------------------------------------------------------------------
(* AssetServer (statica.go) *)

mimeTypeCSS     == "text/css"
mimeTypeJS      == "text/javascript"
mimeTypeJSON    == "application/json"
mimeTypeHTML    == "text/html"
mimeTypePNG     == "image/png"
mimeTypeWOFF2   == "font/woff2"
mimeTypeWOFF    == "font/woff"
mimeTypeJPG     == "image/jpeg"
mimeTypeText    == "text/plain"
mimeTypeUnknown == "application/octet-stream"

brotliEncoding  == "br"

\* a regular expression of the form `literal$` (Suffix) or `literal` (Anywhere)
Suffix(lit)   == [kind |-> "suffix", lit |-> lit]
Anywhere(lit) == [kind |-> "anywhere", lit |-> lit]

cssRegex   == Suffix(<<".", "c", "s", "s">>)
jsRegex    == Suffix(<<".", "j", "s">>)
htmlRegex  == Suffix(<<".", "h", "t", "m", "l">>)
jsonRegex  == Suffix(<<".", "j", "s", "o", "n">>)
pngRegex   == Suffix(<<".", "p", "n", "g">>)
woff2Regex == Suffix(<<".", "w", "o", "f", "f", "2">>)
woffRegex  == Suffix(<<".", "w", "o", "f", "f">>)
jpegRegex  == Suffix(<<".", "j", "p", "e", "g">>)
jpgRegex   == Suffix(<<".", "j", "p", "g">>)
txtRegex   == Suffix(<<".", "t", "x", "t">>)

\* expr.MatchString(s)
MatchString(expr, s) ==
    IF expr.kind = "suffix" THEN HasSuffix(s, expr.lit) ELSE Contains(s, expr.lit)

Typer(expr, mimeType) == [expr |-> expr, mimeType |-> mimeType]

buildDefaultTypers ==
    << Typer(cssRegex, mimeTypeCSS),     Typer(jsRegex, mimeTypeJS),
       Typer(htmlRegex, mimeTypeHTML),   Typer(jsonRegex, mimeTypeJSON),
       Typer(pngRegex, mimeTypePNG),     Typer(woff2Regex, mimeTypeWOFF2),
       Typer(woffRegex, mimeTypeWOFF),   Typer(jpegRegex, mimeTypeJPG),
       Typer(jpgRegex, mimeTypeJPG),     Typer(txtRegex, mimeTypeText) >>

\* function-valued fields hold the name of the function, or "nil"
NilFunc == "nil"

NoServer ==
    [isNil |-> TRUE, route |-> EmptyStr, files |-> "nil", typers |-> <<>>,
     FSPrefix |-> EmptyStr, ErrFunc |-> NilFunc, HeaderFunc |-> NilFunc,
     BrotliSuffix |-> EmptyStr]

\* a faulty constructor that tests the filesystem before the route
NewAssetServerResult_NilFSFirst(route, files) ==
    IF files = "nil" THEN [server |-> NoServer, err |-> ErrNilFS]
    ELSE IF route = EmptyStr THEN [server |-> NoServer, err |-> ErrEmptyRoute]
    ELSE [server |-> [isNil |-> FALSE, route |-> route, files |-> files,
                      typers |-> buildDefaultTypers, FSPrefix |-> EmptyStr,
                      ErrFunc |-> "DefaultErrFunc", HeaderFunc |-> NilFunc,
                      BrotliSuffix |-> EmptyStr],
          err |-> NilErr]

\* NewAssetServer: (instance, error)
NewAssetServerResult(route, files) ==
    IF route = EmptyStr THEN [server |-> NoServer, err |-> ErrEmptyRoute]
    ELSE IF files = "nil" THEN [server |-> NoServer, err |-> ErrNilFS]
    ELSE [server |-> [isNil |-> FALSE, route |-> route, files |-> files,
                      typers |-> buildDefaultTypers, FSPrefix |-> EmptyStr,
                      ErrFunc |-> "DefaultErrFunc", HeaderFunc |-> NilFunc,
                      BrotliSuffix |-> EmptyStr],
          err |-> NilErr]

\* a faulty Check that tests the end of FSPrefix before its start
CheckResult_SeparatorFirst(srv) ==
    IF srv.route = EmptyStr THEN ErrEmptyRoute
    ELSE IF srv.files = "nil" THEN ErrNilFS
    ELSE IF srv.BrotliSuffix # EmptyStr /\ ~HasPrefix(srv.BrotliSuffix, <<".">>)
    THEN ErrBadBrotliSuffix
    ELSE IF srv.FSPrefix # EmptyStr /\ ~HasSuffix(srv.FSPrefix, <<"/">>)
    THEN ErrBadFSPrefix
    ELSE IF srv.FSPrefix # EmptyStr /\ HasPrefix(srv.FSPrefix, <<"/">>)
    THEN ErrAbsoluteFSPrefix
    ELSE NilErr

\* AssetServer.Check: the error it returns
CheckResult(srv) ==
    IF srv.route = EmptyStr THEN ErrEmptyRoute
    ELSE IF srv.files = "nil" THEN ErrNilFS
    ELSE IF srv.BrotliSuffix # EmptyStr /\ ~HasPrefix(srv.BrotliSuffix, <<".">>)
    THEN ErrBadBrotliSuffix
    ELSE IF srv.FSPrefix # EmptyStr /\ HasPrefix(srv.FSPrefix, <<"/">>)
    THEN ErrAbsoluteFSPrefix
    ELSE IF srv.FSPrefix # EmptyStr /\ ~HasSuffix(srv.FSPrefix, <<"/">>)
    THEN ErrBadFSPrefix
    ELSE NilErr

\* a faulty DefaultErrFunc that compares errors by identity
DefaultErrFunc_ByIdentity(w, err) ==
    LET code == IF err = fsErrNotExist THEN 404
                ELSE IF err = fsErrPermission THEN 403
                ELSE 500
    IN  Write(HeaderAdd(WriteHeader(w, code), "Content-Type", "text/plain"),
              ErrorText(err))

\* DefaultErrFunc(w, r, err)
DefaultErrFunc(w, err) ==
    LET code == IF ErrorsIs(err, fsErrNotExist) THEN 404
                ELSE IF ErrorsIs(err, fsErrPermission) THEN 403
                ELSE 500
    IN  Write(HeaderAdd(WriteHeader(w, code), "Content-Type", "text/plain"),
              ErrorText(err))

\* DefaultHeaderFunc(w, data)
DefaultHeaderFunc(w, data) ==
    HeaderAdd(w, "Cache-Control", "private, max-age=604800")

\* a caller-supplied error function (the one of TestCustomErrorHandler)
CustomErrFunc(w, err) == Write(WriteHeader(w, 418), "custom error")

\* a caller-supplied header function (the one of TestCustomHeaderHandler)
CustomHeaderFunc(w, data) == HeaderAdd(w, "X-Custom", "test")

\* a caller-supplied header function that labels the response with the bytes
\* it is given
EtagHeaderFunc(w, data) == HeaderAdd(w, "ETag", data)

\* server.ErrFunc(w, r, err), for a non-nil ErrFunc
CallErrFunc(f, w, err) ==
    IF f = "DefaultErrFunc" THEN DefaultErrFunc(w, err) ELSE CustomErrFunc(w, err)

\* server.HeaderFunc(w, data), for a non-nil HeaderFunc
CallHeaderFunc(f, w, data) ==
    IF f = "DefaultHeaderFunc" THEN DefaultHeaderFunc(w, data)
    ELSE IF f = "EtagHeaderFunc" THEN EtagHeaderFunc(w, data)
    ELSE CustomHeaderFunc(w, data)

\* a faulty RegisterMimeType that looks for a rule with the same pattern
\* instead of one with the same media type
RegisterMimeTypeResult_ByPattern(typers, expr, mimeType, priority) ==
    IF \E i \in 1..Len(typers) : typers[i].expr = expr
    THEN [ok |-> FALSE, typers |-> typers]
    ELSE [ok |-> TRUE,
          typers |-> IF priority THEN <<Typer(expr, mimeType)>> \o typers
                     ELSE Append(typers, Typer(expr, mimeType))]

\* a faulty RegisterMimeType that ignores the priority flag
RegisterMimeTypeResult_AlwaysAppends(typers, expr, mimeType, priority) ==
    IF \E i \in 1..Len(typers) : typers[i].mimeType = mimeType
    THEN [ok |-> FALSE, typers |-> typers]
    ELSE [ok |-> TRUE, typers |-> Append(typers, Typer(expr, mimeType))]

\* the rule table after RegisterMimeType(expr, mimeType, priority), and what
\* the call returns
RegisterMimeTypeResult(typers, expr, mimeType, priority) ==
    IF \E i \in 1..Len(typers) : typers[i].mimeType = mimeType
    THEN [ok |-> FALSE, typers |-> typers]
    ELSE [ok |-> TRUE,
          typers |-> IF priority THEN <<Typer(expr, mimeType)>> \o typers
                     ELSE Append(typers, Typer(expr, mimeType))]

\* a faulty RemoveMimeType that drops every rule of the media type
RemoveMimeTypeResult_EveryRule(typers, mimeType) ==
    LET found == {i \in 1..Len(typers) : typers[i].mimeType = mimeType}
    IN  IF found = {} THEN [ok |-> FALSE, typers |-> typers]
        ELSE [ok |-> TRUE, typers |-> SelectSeq(typers, LAMBDA t : t.mimeType # mimeType)]

\* the rule table after RemoveMimeType(mimeType), and what the call returns:
\* target is the index of the first rule of that media type
RemoveMimeTypeResult(typers, mimeType) ==
    LET found  == {i \in 1..Len(typers) : typers[i].mimeType = mimeType}
        target == CHOOSE i \in found : \A j \in found : i <= j
    IN  IF found = {} THEN [ok |-> FALSE, typers |-> typers]
        ELSE [ok |-> TRUE,
              typers |-> IF target = Len(typers) THEN SubSeq(typers, 1, target - 1)
                         ELSE IF target = 1 THEN Tail(typers)
                         ELSE SubSeq(typers, 1, target - 1)
                              \o SubSeq(typers, target + 1, Len(typers))]

\* AssetServer.IsMimeTypeRegistered
IsMimeTypeRegistered(typers, mimeType) ==
    \E i \in 1..Len(typers) : typers[i].mimeType = mimeType

\* a faulty inferMimeType whose loop does not stop at the first match
inferMimeType_LastMatch(srv, filePath) ==
    LET path == IF srv.BrotliSuffix # EmptyStr /\ HasSuffix(filePath, srv.BrotliSuffix)
                THEN TrimSuffix(filePath, srv.BrotliSuffix) ELSE filePath
        hits == {i \in 1..Len(srv.typers) : MatchString(srv.typers[i].expr, path)}
    IN  IF hits = {} THEN mimeTypeUnknown
        ELSE srv.typers[CHOOSE i \in hits : \A j \in hits : i >= j].mimeType

\* AssetServer.inferMimeType
inferMimeType(srv, filePath) ==
    LET path == IF srv.BrotliSuffix # EmptyStr /\ HasSuffix(filePath, srv.BrotliSuffix)
                THEN TrimSuffix(filePath, srv.BrotliSuffix) ELSE filePath
        hits == {i \in 1..Len(srv.typers) : MatchString(srv.typers[i].expr, path)}
    IN  IF hits = {} THEN mimeTypeUnknown
        ELSE srv.typers[CHOOSE i \in hits : \A j \in hits : i <= j].mimeType

\* a faulty readFile that looks the requested path up without the FSPrefix
FilePath_Unprefixed(srv, requestedPath) == requestedPath

\* readFile: the path looked up for a requested path (FSPrefix applied)
FilePath(srv, requestedPath) ==
    IF srv.FSPrefix # EmptyStr THEN srv.FSPrefix \o requestedPath ELSE requestedPath

\* readFile: brotliRequested
BrotliRequested(srv, filePath) == HasSuffix(filePath, srv.BrotliSuffix)

\* a faulty readFile that looks for a variant also when no suffix is configured
TriesVariant_AnySuffix(srv, filePath) ==
    srv.BrotliSuffix = EmptyStr \/ ~BrotliRequested(srv, filePath)

\* readFile: is the compressed variant read first
TriesVariant(srv, filePath) ==
    srv.BrotliSuffix # EmptyStr /\ ~BrotliRequested(srv, filePath)

\* readFile: brotliPath
BrotliPath(srv, filePath) == filePath \o srv.BrotliSuffix

\* a faulty readFile that never flags a direct read as compressed
DirectIsBrotli_Never(srv, filePath) == FALSE

\* readFile: isBrotli after a successful read of filePath itself
DirectIsBrotli(srv, filePath) ==
    BrotliRequested(srv, filePath) /\ srv.BrotliSuffix # EmptyStr

\* a faulty readFile that prefers the plain file to its variant
readFile_PlainFirst(srv, fsys, requestedPath) ==
    LET filePath == FilePath(srv, requestedPath)
        direct   == StoreReadFile(fsys, filePath)
        variant  == StoreReadFile(fsys, BrotliPath(srv, filePath))
    IN  IF direct.err = NilErr \/ ~TriesVariant(srv, filePath)
        THEN [data |-> direct.data,
              isBrotli |-> direct.err = NilErr /\ DirectIsBrotli(srv, filePath),
              err |-> direct.err, reads |-> <<filePath>>]
        ELSE [data |-> variant.data, isBrotli |-> variant.err = NilErr,
              err |-> variant.err,
              reads |-> <<filePath, BrotliPath(srv, filePath)>>]

\* a faulty readFile that gives up when the variant cannot be read
readFile_NoFallback(srv, fsys, requestedPath) ==
    LET filePath == FilePath(srv, requestedPath)
        path     == IF TriesVariant(srv, filePath)
                    THEN BrotliPath(srv, filePath) ELSE filePath
        r        == StoreReadFile(fsys, path)
    IN  [data |-> r.data,
         isBrotli |-> r.err = NilErr /\ (\/ TriesVariant(srv, filePath)
                                         \/ DirectIsBrotli(srv, filePath)),
         err |-> r.err, reads |-> <<path>>]

\* a faulty readFile that, asked for a compressed name that cannot be read,
\* goes on to the name without the suffix
readFile_StripsSuffix(srv, fsys, requestedPath) ==
    LET filePath == FilePath(srv, requestedPath)
        variant  == IF TriesVariant(srv, filePath)
                    THEN StoreReadFile(fsys, BrotliPath(srv, filePath))
                    ELSE Fail("not-read")
        direct   == StoreReadFile(fsys, filePath)
        plain    == TrimSuffix(filePath, srv.BrotliSuffix)
    IN  IF TriesVariant(srv, filePath) /\ variant.err = NilErr
        THEN [data |-> variant.data, isBrotli |-> TRUE, err |-> NilErr,
              reads |-> <<BrotliPath(srv, filePath)>>]
        ELSE IF direct.err # NilErr /\ DirectIsBrotli(srv, filePath)
        THEN [data |-> StoreReadFile(fsys, plain).data, isBrotli |-> FALSE,
              err |-> StoreReadFile(fsys, plain).err,
              reads |-> <<filePath, plain>>]
        ELSE [data |-> direct.data,
              isBrotli |-> direct.err = NilErr /\ DirectIsBrotli(srv, filePath),
              err |-> direct.err,
              reads |-> IF TriesVariant(srv, filePath)
                        THEN <<BrotliPath(srv, filePath), filePath>>
                        ELSE <<filePath>>]

\* a faulty readFile that returns the variant's error when it is not a
\* not-found error
readFile_ReportsVariantError(srv, fsys, requestedPath) ==
    LET filePath == FilePath(srv, requestedPath)
        variant  == IF TriesVariant(srv, filePath)
                    THEN StoreReadFile(fsys, BrotliPath(srv, filePath))
                    ELSE Fail("not-read")
        direct   == StoreReadFile(fsys, filePath)
    IN  IF TriesVariant(srv, filePath) /\ variant.err = NilErr
        THEN [data |-> variant.data, isBrotli |-> TRUE, err |-> NilErr,
              reads |-> <<BrotliPath(srv, filePath)>>]
        ELSE IF TriesVariant(srv, filePath) /\ ~ErrorsIs(variant.err, fsErrNotExist)
        THEN [data |-> NilBytes, isBrotli |-> FALSE, err |-> variant.err,
              reads |-> <<BrotliPath(srv, filePath)>>]
        ELSE [data |-> direct.data,
              isBrotli |-> direct.err = NilErr /\ DirectIsBrotli(srv, filePath),
              err |-> direct.err,
              reads |-> IF TriesVariant(srv, filePath)
                        THEN <<BrotliPath(srv, filePath), filePath>>
                        ELSE <<filePath>>]

\* AssetServer.readFile on a filesystem given as a map: (data, isBrotli, err),
\* with the paths it read, in order
readFile(srv, fsys, requestedPath) ==
    LET filePath == FilePath(srv, requestedPath)
        variant  == IF TriesVariant(srv, filePath)
                    THEN StoreReadFile(fsys, BrotliPath(srv, filePath))
                    ELSE Fail("not-read")
        direct   == StoreReadFile(fsys, filePath)
    IN  IF TriesVariant(srv, filePath) /\ variant.err = NilErr
        THEN [data |-> variant.data, isBrotli |-> TRUE, err |-> NilErr,
              reads |-> <<BrotliPath(srv, filePath)>>]
        ELSE [data |-> direct.data,
              isBrotli |-> direct.err = NilErr /\ DirectIsBrotli(srv, filePath),
              err |-> direct.err,
              reads |-> IF TriesVariant(srv, filePath)
                        THEN <<BrotliPath(srv, filePath), filePath>>
                        ELSE <<filePath>>]

\* a faulty ServeHTTP that falls back to DefaultErrFunc when ErrFunc is nil
ServeHTTPWrite_NilMeansDefault(srv, w, requestedPath, rf) ==
    IF rf.err # NilErr
    THEN IF srv.ErrFunc # NilFunc THEN CallErrFunc(srv.ErrFunc, w, rf.err)
         ELSE DefaultErrFunc(w, rf.err)
    ELSE LET w1 == IF srv.HeaderFunc # NilFunc
                   THEN CallHeaderFunc(srv.HeaderFunc, w, rf.data) ELSE w
             w2 == HeaderAdd(w1, "Content-Type", inferMimeType(srv, requestedPath))
             w3 == IF rf.isBrotli
                   THEN HeaderAdd(w2, "Content-Encoding", brotliEncoding) ELSE w2
         IN  Write(WriteHeader(w3, 200), rf.data)

\* a faulty ServeHTTP that infers the media type from the path readFile
\* builds, FSPrefix included
ServeHTTPWrite_TypesLookupPath(srv, w, requestedPath, rf) ==
    IF rf.err # NilErr
    THEN IF srv.ErrFunc # NilFunc THEN CallErrFunc(srv.ErrFunc, w, rf.err) ELSE w
    ELSE LET w1 == IF srv.HeaderFunc # NilFunc
                   THEN CallHeaderFunc(srv.HeaderFunc, w, rf.data) ELSE w
             w2 == HeaderAdd(w1, "Content-Type",
                             inferMimeType(srv, FilePath(srv, requestedPath)))
             w3 == IF rf.isBrotli
                   THEN HeaderAdd(w2, "Content-Encoding", brotliEncoding) ELSE w2
         IN  Write(WriteHeader(w3, 200), rf.data)

\* a faulty ServeHTTP that calls HeaderFunc after it has added its own headers
ServeHTTPWrite_HeaderFuncLast(srv, w, requestedPath, rf) ==
    IF rf.err # NilErr
    THEN IF srv.ErrFunc # NilFunc THEN CallErrFunc(srv.ErrFunc, w, rf.err) ELSE w
    ELSE LET w1 == HeaderAdd(w, "Content-Type", inferMimeType(srv, requestedPath))
             w2 == IF rf.isBrotli
                   THEN HeaderAdd(w1, "Content-Encoding", brotliEncoding) ELSE w1
             w3 == IF srv.HeaderFunc # NilFunc
                   THEN CallHeaderFunc(srv.HeaderFunc, w2, rf.data) ELSE w2
         IN  Write(WriteHeader(w3, 200), rf.data)

\* ServeHTTP after readFile has returned rf: what is written to w
ServeHTTPWrite(srv, w, requestedPath, rf) ==
    IF rf.err # NilErr
    THEN IF srv.ErrFunc # NilFunc THEN CallErrFunc(srv.ErrFunc, w, rf.err) ELSE w
    ELSE LET w1 == IF srv.HeaderFunc # NilFunc
                   THEN CallHeaderFunc(srv.HeaderFunc, w, rf.data) ELSE w
             w2 == HeaderAdd(w1, "Content-Type", inferMimeType(srv, requestedPath))
             w3 == IF rf.isBrotli
                   THEN HeaderAdd(w2, "Content-Encoding", brotliEncoding) ELSE w2
         IN  Write(WriteHeader(w3, 200), rf.data)

\* ServeHTTP: requestedPath
RequestedPath(srv, urlPath) == TrimPrefix(urlPath, srv.route)

\* a request: its method, r.URL.Path, its Accept-Encoding header and its body
Request(method, url, accept, body) ==
    [method |-> method, url |-> url, accept |-> accept, body |-> body]

\* httptest.NewRequest("GET", url, nil)
GetRequest(url) == Request("GET", url, "", "")

\* a faulty ServeHTTP that answers a HEAD request without a body
ServeHTTPResult_HeadWithoutBody(srv, fsys, r) ==
    LET requestedPath == RequestedPath(srv, r.url)
        rf            == readFile(srv, fsys, requestedPath)
        w             == ServeHTTPWrite(srv, NewRecorder, requestedPath, rf)
    IN  [rf |-> rf, w |-> IF r.method = "HEAD" THEN [w EXCEPT !.body = <<>>] ELSE w]

\* ServeHTTP(w, r) on a fresh recorder: what readFile returned and what was
\* written; of the request only r.URL.Path is read
ServeHTTPResult(srv, fsys, r) ==
    LET requestedPath == RequestedPath(srv, r.url)
        rf            == readFile(srv, fsys, requestedPath)
    IN  [rf |-> rf, w |-> ServeHTTPWrite(srv, NewRecorder, requestedPath, rf)]

----------------------------------------------------------------------------
(* Concurrent callers of a CachingFS *)

Route == <<"/">>
DotBr == <<".", "b", "r">>

Unset == [data |-> NilBytes, err |-> "unset"]

\* a caller that is in no call
IdleCall ==
    [pc |-> "idle", op |-> "none", url |-> EmptyStr, target |-> EmptyStr,
     phase |-> "none", hit |-> FALSE, overlap |-> {}, raw |-> Unset, got |-> Unset,
     firstRaw |-> Unset, first |-> Unset, reads |-> <<>>]

NoBuilt ==
    [ctor |-> "none", route |-> EmptyStr, files |-> "nil", option |-> NilOption,
     isNil |-> TRUE, err |-> NilErr]

NoResp ==
    [served |-> FALSE, url |-> EmptyStr, req |-> GetRequest(EmptyStr),
     rf |-> [data |-> NilBytes, isBrotli |-> FALSE, err |-> "unset", reads |-> <<>>],
     w |-> NewRecorder]

\* no direct call of a server method has been made
NoProbe ==
    [op |-> "none", path |-> EmptyStr, err |-> NilErr, mimeType |-> "",
     expr |-> Suffix(EmptyStr), priority |-> FALSE, ok |-> FALSE, before |-> <<>>]

serverVars == <<server, built, hfAssigned, resp, probe>>

\* the keys a load is running for
Loading == {q \in CachePaths : inflight[q]}

\* what a caller got back from a call that has returned: the call's locals,
\* its result and, for a request, the response
Returned(c, rec, res, w) ==
    [caller |-> c, op |-> rec.op, url |-> rec.url, target |-> rec.target,
     hit |-> rec.hit, overlap |-> rec.overlap, raw |-> rec.raw,
     got |-> rec.got, firstRaw |-> rec.firstRaw, first |-> rec.first,
     reads |-> rec.reads,
     res |-> res, w |-> w]

\* cache.Get has returned g to a caller: a caller of CachingFS.ReadFile runs
\* the rest of ReadFile and has returned; a request goes on in readFile (Return)
GetReturned(rec, g) ==
    IF rec.op = "ReadFile" THEN IdleCall
    ELSE [rec EXCEPT !.pc = "returning", !.got = g]

\* the calls of CachingFS.ReadFile among recs that return once cache.Get has
\* returned g to them
ReadFileReturns(recs, g) ==
    { Returned(x[1], [x[2] EXCEPT !.got = g], ReadFileReturn(g), NewRecorder) :
          x \in {y \in recs : y[2].op = "ReadFile"} }

\* cfs.cache.Get(ctx, t, cfs.fs) up to the point where it returns or blocks:
\* a hit returns, a miss joins the running load of t or starts one
CacheGetBegin(c, t, base) ==
    IF Resident(cache, t)
    THEN LET rec == [base EXCEPT !.target = t, !.hit = TRUE, !.raw = Unset,
                                 !.overlap = Loading \ {t},
                                 !.reads = Append(@, t)]
             g   == HitResult(cache, store, t)
         IN  /\ call' = [call EXCEPT ![c] = GetReturned(rec, g)]
             /\ last' = IF rec.op = "ReadFile"
                        THEN ReadFileReturns({<<c, rec>>}, g) ELSE {}
             /\ UNCHANGED inflight
    ELSE IF JoinsFlight(inflight, t)
    THEN /\ call' = [call EXCEPT ![c] =
                        [base EXCEPT !.pc = "waiting", !.target = t, !.hit = FALSE,
                                     !.overlap = Loading \ {t},
                                     !.reads = Append(@, t)]]
         /\ last' = {}
         /\ UNCHANGED inflight
    ELSE /\ call' = [call EXCEPT ![c] =
                        [base EXCEPT !.pc = "loading", !.target = t, !.hit = FALSE,
                                     !.overlap = Loading \ {t},
                                     !.reads = Append(@, t)]]
         /\ inflight' = [inflight EXCEPT ![t] = TRUE]
         /\ last' = {}

\* a caller enters CachingFS.ReadFile(p)
CallReadFile(c, p) ==
    /\ call[c].pc = "idle"
    /\ calls < MaxCalls
    /\ ~cfs.isNil
    /\ CacheGetBegin(c, p, [IdleCall EXCEPT !.op = "ReadFile", !.url = p])
    /\ calls' = calls + 1
    /\ UNCHANGED <<store, cfs, cache, changes, evicted, failed, serverVars>>

\* a caller enters ServeHTTP of a server whose filesystem is the CachingFS:
\* readFile up to its first filesystem read
CallServeHTTP(c, url) ==
    /\ call[c].pc = "idle"
    /\ calls < MaxCalls
    /\ ~cfs.isNil /\ ~server.isNil /\ server.files = "cfs"
    /\ LET filePath == FilePath(server, RequestedPath(server, url))
           variant  == TriesVariant(server, filePath)
           start    == IF variant THEN BrotliPath(server, filePath) ELSE filePath
       IN  /\ filePath \in CachePaths
           /\ start \in CachePaths
           /\ CacheGetBegin(c, start,
                  [IdleCall EXCEPT !.op = "ServeHTTP", !.url = url,
                                   !.phase = IF variant THEN "variant" ELSE "direct"])
    /\ calls' = calls + 1
    /\ UNCHANGED <<store, cfs, cache, changes, evicted, failed, serverVars>>

\* CachingFS.Open(p)
CallOpen(c, p) ==
    /\ call[c].pc = "idle"
    /\ calls < MaxCalls
    /\ ~cfs.isNil
    /\ last' = { Returned(c, [IdleCall EXCEPT !.op = "Open", !.url = p, !.target = p],
                          OpenResult(cache, store, p), NewRecorder) }
    /\ calls' = calls + 1
    /\ UNCHANGED <<store, cfs, cache, inflight, call, changes, evicted, failed,
                   serverVars>>

\* the loader call started by caller c returns: FSLoader.Load has read the
\* backing store; the cache stores a successful result and hands the loader's
\* result to c and to every caller waiting on the same load
LoadFinish(c) ==
    /\ call[c].pc = "loading"
    /\ LET t      == call[c].target
           r      == StoreReadFile(store, t)
           lr     == load(r)
           served == {d \in Procs :
                         /\ call[d].target = t
                         /\ (d = c \/ call[d].pc = "waiting")}
           direct == {<<d, [call[d] EXCEPT !.raw = r]>> :
                         d \in {e \in served : call[e].op = "ReadFile"}}
       IN  /\ call' = [d \in Procs |->
                         IF d \in served
                         THEN GetReturned([call[d] EXCEPT !.raw = r], lr)
                         ELSE call[d]]
           /\ last' = ReadFileReturns(direct, lr)
           /\ cache' = AfterLoad(cache, t, lr)
           /\ inflight' = [inflight EXCEPT ![t] = FALSE]
           /\ failed' = IF lr.err # NilErr THEN failed \cup {t} ELSE failed
    /\ UNCHANGED <<store, cfs, changes, calls, evicted, serverVars>>

\* cache.Get has returned to the request of caller c: the rest of
\* CachingFS.ReadFile, then readFile and ServeHTTP up to the next filesystem
\* read or to the end of the request
Return(c) ==
    /\ call[c].pc = "returning"
    /\ LET rr       == ReadFileReturn(call[c].got)
           reqPath  == RequestedPath(server, call[c].url)
           filePath == FilePath(server, reqPath)
           rf       == [data |-> rr.data,
                        isBrotli |-> /\ rr.err = NilErr
                                     /\ (\/ call[c].phase = "variant"
                                         \/ DirectIsBrotli(server, filePath)),
                        err |-> rr.err]
       IN  IF call[c].phase = "variant" /\ rr.err # NilErr
           THEN CacheGetBegin(c, filePath,
                              [call[c] EXCEPT !.phase = "direct", !.first = rr,
                                              !.firstRaw = call[c].raw])
           ELSE /\ call' = [call EXCEPT ![c] = IdleCall]
                /\ last' = { Returned(c, call[c], rr,
                                      ServeHTTPWrite(server, NewRecorder, reqPath, rf)) }
                /\ UNCHANGED inflight
    /\ UNCHANGED <<store, cfs, cache, changes, calls, evicted, failed, serverVars>>

\* the cache's eviction policy drops a resident entry once the cache holds
\* more than MaximumSize entries
Evict(p) ==
    /\ ~cfs.isNil
    /\ ResidentCount(cache) > cfs.MaximumSize
    /\ Resident(cache, p)
    /\ cache' = AfterEvict(cache, p)
    /\ evicted' = evicted \cup {p}
    /\ last' = {}
    /\ UNCHANGED <<store, cfs, inflight, call, changes, calls, failed, serverVars>>

\* the content of the backing store changes under the cache
StoreChange(p) ==
    /\ changes < MaxChanges
    /\ store' = [store EXCEPT ![p] = NextContent(@)]
    /\ changes' = changes + 1
    /\ last' = {}
    /\ UNCHANGED <<cfs, cache, inflight, call, calls, evicted, failed, serverVars>>

\* the cache sizes a CachingFS is run with: the default and a small one
RunOptions == {NilOption, Option(1, 1)}

InitCacheState ==
    /\ store \in InitialStores
    /\ \E o \in RunOptions : cfs = NewCachingFSResult("store", o).cfs
    /\ cache = [p \in CachePaths |-> NoEntry]
    /\ inflight = [p \in CachePaths |-> FALSE]
    /\ call = [c \in Procs |-> IdleCall]
    /\ last = {}
    /\ changes = 0
    /\ calls = 0
    /\ evicted = {}
    /\ failed = {}
    /\ built = NoBuilt
    /\ hfAssigned = FALSE
    /\ resp = NoResp
    /\ probe = NoProbe

\* callers use the CachingFS directly
InitCache ==
    /\ InitCacheState
    /\ server = NoServer

NextCache ==
    \/ \E c \in Procs, p \in CachePaths : CallReadFile(c, p)
    \/ \E c \in Procs, p \in CachePaths : CallOpen(c, p)
    \/ \E c \in Procs : LoadFinish(c)
    \/ \E p \in CachePaths : Evict(p)
    \/ \E p \in CachePaths : StoreChange(p)

SpecCache == InitCache /\ [][NextCache]_vars

\* requests are served by an AssetServer whose filesystem is the CachingFS
InitCacheHTTP ==
    /\ InitCacheState
    /\ \E s \in {EmptyStr, DotBr} :
           server = [NewAssetServerResult(Route, "cfs").server
                         EXCEPT !.BrotliSuffix = s]

NextCacheHTTP ==
    \/ \E c \in Requesters, p \in CachePaths : CallServeHTTP(c, Route \o p)
    \/ \E c \in Requesters : LoadFinish(c)
    \/ \E c \in Requesters : Return(c)
    \/ \E p \in CachePaths : Evict(p)
    \/ \E p \in CachePaths : StoreChange(p)

SpecCacheHTTP == InitCacheHTTP /\ [][NextCacheHTTP]_vars

----------------------------------------------------------------------------
(* Construction, configuration and sequential serving of an AssetServer *)

StaticRoute == <<"/", "s", "/">>

NameAJs    == <<"a", ".", "j", "s">>
NameAJsBr  == <<"a", ".", "j", "s", ".", "b", "r">>
NameOJs    == <<"o", ".", "j", "s">>
NameOJsBr  == <<"o", ".", "j", "s", ".", "b", "r">>
NameCCss   == <<"c", ".", "c", "s", "s">>
NameCCssBr == <<"c", ".", "c", "s", "s", ".", "b", "r">>
NameFTxt   == <<"f", ".", "t", "x", "t">>
NameX      == <<"x">>
NamePOJs   == <<"p", "/", "o", ".", "j", "s">>

\* the files of the plain filesystem a server is built on: a file with a
\* compressed variant, a file without, a variant without its file, a file
\* that may not be read, a file below a directory whose variant may not be
\* read, a variant that fails with another error and has no file
ServerFiles ==
    (NameAJs :> Ok("plain") @@ NameAJsBr :> Ok("compressed") @@ NameOJs :> Ok("X")
     @@ NameCCssBr :> Ok("only-brotli") @@ NameFTxt :> Fail(PathErrPermission)
     @@ NamePOJs :> Ok("prefixed") @@ (NamePOJs \o DotBr) :> Fail(PathErrPermission)
     @@ (NameX \o DotBr) :> Fail(fsErrInvalid))

\* the request paths: below the route, one outside it, one that holds the
\* route twice
RequestURLs ==
    {StaticRoute \o n : n \in {NameAJs, NameAJsBr, NameOJs, NameOJsBr, NameCCss,
                               NameFTxt, NameX}}
        \cup {<<"/">> \o NameOJs, StaticRoute \o StaticRoute \o NameOJs}

Routes         == {EmptyStr, StaticRoute}
FileSystems    == {"nil", "store"}
HeaderFuncs    == {NilFunc, "DefaultHeaderFunc", "CustomHeaderFunc"}
ErrFuncs       == {NilFunc, "DefaultErrFunc", "CustomErrFunc"}
BrotliSuffixes == {EmptyStr, DotBr, <<"b", "r">>}
FSPrefixes     == {EmptyStr, <<"p", "/">>, <<"/", "p">>, <<"p">>, <<"/", "p", "/">>}

\* server, err := NewAssetServer(route, files); the server of this
\* specification is built on the plain filesystem, not on a CachingFS
NewAssetServer(route, files) ==
    /\ server.isNil
    /\ cfs.isNil
    /\ LET r == NewAssetServerResult(route, files)
       IN  /\ server' = r.server
           /\ built' = [ctor |-> "NewAssetServer", route |-> route, files |-> files,
                        option |-> NilOption, isNil |-> r.server.isNil, err |-> r.err]
    /\ hfAssigned' = FALSE
    /\ probe' = NoProbe
    /\ UNCHANGED <<store, cfs, cache, inflight, call, last, changes, calls, evicted,
                   failed, resp>>

\* cfs, err := NewCachingFS(baseFS, option), before the server is built
NewCachingFS(baseFS, option) ==
    /\ server.isNil
    /\ cfs.isNil
    /\ LET r == NewCachingFSResult(baseFS, option)
       IN  /\ cfs' = r.cfs
           /\ built' = [ctor |-> "NewCachingFS", route |-> EmptyStr, files |-> baseFS,
                        option |-> option, isNil |-> r.cfs.isNil, err |-> r.err]
    /\ UNCHANGED <<store, cache, inflight, call, last, changes, calls, evicted,
                   failed, server, hfAssigned, resp, probe>>

\* the server is configured before it serves its first request
Configuring == ~server.isNil /\ ~resp.served

\* server.HeaderFunc = f
SetHeaderFunc(f) ==
    /\ Configuring
    /\ server' = [server EXCEPT !.HeaderFunc = f]
    /\ hfAssigned' = TRUE
    /\ probe' = NoProbe
    /\ UNCHANGED <<store, cfs, cache, inflight, call, last, changes, calls, evicted,
                   failed, built, resp>>

\* server.ErrFunc = f
SetErrFunc(f) ==
    /\ Configuring
    /\ server' = [server EXCEPT !.ErrFunc = f]
    /\ probe' = NoProbe
    /\ UNCHANGED <<store, cfs, cache, inflight, call, last, changes, calls, evicted,
                   failed, built, hfAssigned, resp>>

\* server.BrotliSuffix = suffix
SetBrotliSuffix(suffix) ==
    /\ Configuring
    /\ server' = [server EXCEPT !.BrotliSuffix = suffix]
    /\ probe' = NoProbe
    /\ UNCHANGED <<store, cfs, cache, inflight, call, last, changes, calls, evicted,
                   failed, built, hfAssigned, resp>>

\* server.FSPrefix = prefix
SetFSPrefix(prefix) ==
    /\ Configuring
    /\ server' = [server EXCEPT !.FSPrefix = prefix]
    /\ probe' = NoProbe
    /\ UNCHANGED <<store, cfs, cache, inflight, call, last, changes, calls, evicted,
                   failed, built, hfAssigned, resp>>

\* server.route = route, as code of the package does (TestCheck)
SetRoute(route) ==
    /\ Configuring
    /\ server' = [server EXCEPT !.route = route]
    /\ probe' = NoProbe
    /\ UNCHANGED <<store, cfs, cache, inflight, call, last, changes, calls, evicted,
                   failed, built, hfAssigned, resp>>

\* server.files = files, as code of the package does (TestCheck)
SetFiles(files) ==
    /\ Configuring
    /\ server' = [server EXCEPT !.files = files]
    /\ probe' = NoProbe
    /\ UNCHANGED <<store, cfs, cache, inflight, call, last, changes, calls, evicted,
                   failed, built, hfAssigned, resp>>

\* err := server.Check(), called while the server is configured
Check ==
    /\ Configuring
    /\ probe' = [NoProbe EXCEPT !.op = "Check", !.err = CheckResult(server)]
    /\ UNCHANGED <<store, cfs, cache, inflight, call, last, changes, calls, evicted,
                   failed, server, built, hfAssigned, resp>>

\* the patterns and media types callers register: a rule more specific than
\* a built-in one, an unanchored rule, a new media type, a built-in one
minCssRegex == Suffix(<<".", "m", "i", "n", ".", "c", "s", "s">>)
anyJsRegex  == Anywhere(<<".", "j", "s">>)
mimeTypeMin == "text/x-min"

RegisteredExprs     == {minCssRegex, anyJsRegex}
RegisteredMimeTypes == {mimeTypeMin, mimeTypeCSS}

\* ok := server.RegisterMimeType(expr, mimeType, priority)
RegisterMimeType(expr, mimeType, priority) ==
    /\ Configuring
    /\ LET r == RegisterMimeTypeResult(server.typers, expr, mimeType, priority)
       IN  /\ server' = [server EXCEPT !.typers = r.typers]
           /\ probe' = [NoProbe EXCEPT !.op = "RegisterMimeType", !.expr = expr,
                                       !.mimeType = mimeType, !.priority = priority,
                                       !.ok = r.ok, !.before = server.typers]
    /\ UNCHANGED <<store, cfs, cache, inflight, call, last, changes, calls, evicted,
                   failed, built, hfAssigned, resp>>

NameAMinCss   == <<"a", ".", "m", "i", "n", ".", "c", "s", "s">>
NameAMinCssBr == NameAMinCss \o <<".", "b", "r">>

\* the paths whose media type is asked for
InferPaths == {NameAJs, NameAJsBr, NameCCss, NameAMinCss, NameAMinCssBr, NameX}

\* mimeType := server.inferMimeType(path), as code of the package calls it
\* (TestMimeTypeInference)
CallInferMimeType(path) ==
    /\ Configuring
    /\ probe' = [NoProbe EXCEPT !.op = "inferMimeType", !.path = path,
                                !.mimeType = inferMimeType(server, path)]
    /\ UNCHANGED <<store, cfs, cache, inflight, call, last, changes, calls, evicted,
                   failed, server, built, hfAssigned, resp>>

\* server.ServeHTTP(w, r) on a fresh recorder
ServeHTTP(r) ==
    /\ ~server.isNil
    /\ server.files = "store"
    /\ LET res == ServeHTTPResult(server, store, r)
       IN  resp' = [served |-> TRUE, url |-> r.url, req |-> r, rf |-> res.rf,
                    w |-> res.w]
    /\ probe' = NoProbe
    /\ UNCHANGED <<store, cfs, cache, inflight, call, last, changes, calls, evicted,
                   failed, server, built, hfAssigned>>

InitServer ==
    /\ store = ServerFiles
    /\ cfs = NoCFS
    /\ cache = [p \in CachePaths |-> NoEntry]
    /\ inflight = [p \in CachePaths |-> FALSE]
    /\ call = [c \in Procs |-> IdleCall]
    /\ last = {}
    /\ changes = 0
    /\ calls = 0
    /\ evicted = {}
    /\ failed = {}
    /\ server = NoServer
    /\ built = NoBuilt
    /\ hfAssigned = FALSE
    /\ resp = NoResp
    /\ probe = NoProbe

NextServer ==
    \/ \E route \in Routes, files \in FileSystems : NewAssetServer(route, files)
    \/ \E baseFS \in FileSystems, option \in CacheOptions : NewCachingFS(baseFS, option)
    \/ \E f \in HeaderFuncs : SetHeaderFunc(f)
    \/ \E f \in ErrFuncs : SetErrFunc(f)
    \/ \E suffix \in BrotliSuffixes : SetBrotliSuffix(suffix)
    \/ \E prefix \in FSPrefixes : SetFSPrefix(prefix)
    \/ \E route \in Routes : SetRoute(route)
    \/ \E files \in FileSystems : SetFiles(files)
    \/ Check
    \/ \E expr \in RegisteredExprs, mimeType \in RegisteredMimeTypes,
          priority \in BOOLEAN : RegisterMimeType(expr, mimeType, priority)
    \/ \E path \in InferPaths : CallInferMimeType(path)
    \/ \E url \in RequestURLs : ServeHTTP(GetRequest(url))

SpecServer == InitServer /\ [][NextServer]_vars

----------------------------------------------------------------------------
(* Requests to a configured server: SpecRequests.  The server has been built
   on the plain filesystem and configured; requests of every method, with and
   without an Accept-Encoding header and a body, are served one after another. *)

\* a rule that matches a directory name, and its media type
dirRegex    == Anywhere(<<"p", "/">>)
mimeTypeDir == "text/x-dir"

Methods         == {"GET", "HEAD", "POST"}
AcceptEncodings == {"", "br"}
Bodies          == {"", "payload"}

Requests ==
    {Request(m, u, a, b) : m \in Methods, u \in RequestURLs, a \in AcceptEncodings,
                           b \in Bodies}

\* the rule tables the server serves with: the built-in one, and the built-in
\* one behind a rule for the directory
ServingTables ==
    {buildDefaultTypers,
     RegisterMimeTypeResult(buildDefaultTypers, dirRegex, mimeTypeDir, TRUE).typers}

InitRequests ==
    /\ store = ServerFiles
    /\ cfs = NoCFS
    /\ cache = [p \in CachePaths |-> NoEntry]
    /\ inflight = [p \in CachePaths |-> FALSE]
    /\ call = [c \in Procs |-> IdleCall]
    /\ last = {}
    /\ changes = 0
    /\ calls = 0
    /\ evicted = {}
    /\ failed = {}
    /\ \E typers \in ServingTables, suffix \in {EmptyStr, DotBr},
          prefix \in {EmptyStr, <<"p", "/">>},
          hf \in HeaderFuncs \cup {"EtagHeaderFunc"},
          ef \in {"DefaultErrFunc", NilFunc} :
          server = [NewAssetServerResult(StaticRoute, "store").server
                        EXCEPT !.typers = typers, !.BrotliSuffix = suffix,
                               !.FSPrefix = prefix, !.HeaderFunc = hf, !.ErrFunc = ef]
    /\ built = [ctor |-> "NewAssetServer", route |-> StaticRoute, files |-> "store",
                option |-> NilOption, isNil |-> FALSE, err |-> NilErr]
    /\ hfAssigned = (server.HeaderFunc # NilFunc)
    /\ resp = NoResp
    /\ probe = NoProbe

NextRequests == \E r \in Requests : ServeHTTP(r)

SpecRequests == InitRequests /\ [][NextRequests]_vars

----------------------------------------------------------------------------
(* The rule table: SpecTypers.  A server built by NewAssetServer has rules
   registered and removed before it serves. *)

\* the media types callers remove: the first, a middle, the doubled and the
\* last built-in one, a registered one, one no rule carries
\* (TestRemoveMimeType, TestRemoveMimeTypeEdgeCases)
RemovedMimeTypes ==
    {mimeTypeCSS, mimeTypeJS, mimeTypeJPG, mimeTypeText, mimeTypeMin, "non/existent"}

\* ok := server.RemoveMimeType(mimeType)
RemoveMimeType(mimeType) ==
    /\ Configuring
    /\ LET r == RemoveMimeTypeResult(server.typers, mimeType)
       IN  /\ server' = [server EXCEPT !.typers = r.typers]
           /\ probe' = [NoProbe EXCEPT !.op = "RemoveMimeType", !.mimeType = mimeType,
                                       !.ok = r.ok, !.before = server.typers]
    /\ UNCHANGED <<store, cfs, cache, inflight, call, last, changes, calls, evicted,
                   failed, built, hfAssigned, resp>>

\* the tables the runs start from: the one NewAssetServer builds, and what
\* is left of it when the rules before the last one have been removed one
\* by one (TestRemoveMimeTypeEdgeCases, "Remove from single element list")
StartTables == {buildDefaultTypers, <<Typer(txtRegex, mimeTypeText)>>}

InitTypers ==
    /\ store = ServerFiles
    /\ cfs = NoCFS
    /\ cache = [p \in CachePaths |-> NoEntry]
    /\ inflight = [p \in CachePaths |-> FALSE]
    /\ call = [c \in Procs |-> IdleCall]
    /\ last = {}
    /\ changes = 0
    /\ calls = 0
    /\ evicted = {}
    /\ failed = {}
    /\ \E typers \in StartTables :
          server = [NewAssetServerResult(StaticRoute, "store").server
                        EXCEPT !.typers = typers]
    /\ built = [ctor |-> "NewAssetServer", route |-> StaticRoute, files |-> "store",
                option |-> NilOption, isNil |-> FALSE, err |-> NilErr]
    /\ hfAssigned = FALSE
    /\ resp = NoResp
    /\ probe = NoProbe

NextTypers ==
    \/ \E expr \in RegisteredExprs, mimeType \in RegisteredMimeTypes,
          priority \in BOOLEAN : RegisterMimeType(expr, mimeType, priority)
    \/ \E mimeType \in RemovedMimeTypes : RemoveMimeType(mimeType)

SpecTypers == InitTypers /\ [][NextTypers]_vars

----------------------------------------------------------------------------
(* Properties *)

\* the callers blocked in cache.Get on key p, and the one running the loader
Active(p)  == {c \in Procs : call[c].pc \in {"loading", "waiting"} /\ call[c].target = p}
Loaders(p) == {c \in Active(p) : call[c].pc = "loading"}

\* the calls of CachingFS.ReadFile that have just returned
ReadFileCalls == {x \in last : x.op = "ReadFile"}

\* C1: callers that miss on the same path at the same time are served by one
\* backing-store read: among the callers blocked on a key exactly one runs the
\* loader (one store ReadFile per running load), a load runs exactly while
\* that caller does, and the callers it serves all return the same result.
C1_Coalescing ==
    /\ \A p \in CachePaths :
          /\ Active(p) # {} => Cardinality(Loaders(p)) = 1
          /\ inflight[p] <=> Loaders(p) # {}
    /\ \A x, y \in ReadFileCalls :
          (~x.hit /\ ~y.hit) =>
              /\ x.target = y.target
              /\ x.raw = y.raw
              /\ x.res = y.res

\* every caller missed on one path together and all were served by one load
C1_Witness ==
    /\ Cardinality(ReadFileCalls) = NumCallers
    /\ \A x \in ReadFileCalls : ~x.hit
    /\ calls = NumCallers

\* C2: a ReadFile of a resident path returns the resident bytes without a
\* store read, the bytes a successful miss returns are the bytes that become
\* resident, and a resident entry keeps its bytes until it is evicted; so
\* every hit returns the bytes of the call that loaded the entry, whatever the
\* store holds by then.
C2_HitServesFirstBytes ==
    [][ /\ \A x \in {y \in last' : y.op = "ReadFile"} :
              /\ x.hit => /\ Resident(cache, x.target)
                          /\ x.res = Ok(cache[x.target])
                          /\ x.raw = Unset
                          /\ inflight' = inflight
              /\ (~x.hit /\ x.res.err = NilErr) => cache'[x.target] = x.res.data
        /\ \A p \in CachePaths :
              (Resident(cache, p) /\ Resident(cache', p)) => cache'[p] = cache[p]
      ]_vars

\* a hit returned bytes the store no longer holds for the path
C2_Witness ==
    \E x \in ReadFileCalls :
        /\ x.hit
        /\ x.res.err = NilErr
        /\ changes > 0
        /\ store[x.target] # x.res

\* C3: a ReadFile that fails was a miss that read the store and leaves no
\* entry for its path; and every miss returns what the store holds at that
\* time, so a ReadFile after a failed one reads the store again and returns
\* its bytes once the store succeeds.
C3_ErrorsNotCached ==
    \A x \in ReadFileCalls :
        /\ x.res.err # NilErr =>
              /\ ~x.hit
              /\ x.raw.err # NilErr
              /\ ~Resident(cache, x.target)
        /\ ~x.hit =>
              /\ x.raw = StoreReadFile(store, x.target)
              /\ x.raw.err = NilErr => x.res = x.raw

\* a ReadFile of a path whose load had failed before returned the store's bytes
C3_Witness ==
    \E x \in ReadFileCalls :
        /\ x.target \in failed
        /\ ~x.hit
        /\ x.res.err = NilErr
        /\ x.res = store[x.target]

\* C4: when the store's ReadFile fails with an error matching fs.ErrNotExist,
\* the loader returns (nil, otter.ErrNotFound) and CachingFS.ReadFile returns
\* nil bytes with an error matching fs.ErrNotExist.
C4_NotFoundTranslation ==
    \A x \in ReadFileCalls :
        ErrorsIs(x.raw.err, fsErrNotExist) =>
            /\ x.got = Fail(otterErrNotFound)
            /\ x.res.data = NilBytes
            /\ ErrorsIs(x.res.err, fsErrNotExist)

\* the store reported a wrapped not-exist error and ReadFile has returned
C4_Witness ==
    \E x \in ReadFileCalls : x.raw.err = PathErrNotExist /\ x.res.err = fsErrNotExist

\* the filesystem reads of a request that has just returned: what the store
\* returned to the loader and what CachingFS.ReadFile returned to readFile
RequestReads ==
    UNION { {[raw |-> x.firstRaw, res |-> x.first], [raw |-> x.raw, res |-> x.res]} :
                x \in {y \in last : y.op = "ServeHTTP"} }

\* C5: a store error that does not match fs.ErrNotExist comes back from
\* CachingFS.ReadFile unchanged, with nil bytes, and never matches
\* fs.ErrNotExist; a request of a server with the default error policy whose
\* read of the file fails with such an error is not answered 404, and is
\* answered 403 when the error matches fs.ErrPermission.
C5_ErrorPassthrough ==
    /\ \A rd \in RequestReads :
          (rd.raw.err \notin {NilErr, "unset"} /\ ~ErrorsIs(rd.raw.err, fsErrNotExist)) =>
              /\ rd.res = Fail(rd.raw.err)
              /\ ~ErrorsIs(rd.res.err, fsErrNotExist)
    /\ \A x \in {y \in last : y.op = "ServeHTTP"} :
          (x.raw.err \notin {NilErr, "unset"} /\ ~ErrorsIs(x.raw.err, fsErrNotExist)) =>
              /\ x.w.status # 404
              /\ ErrorsIs(x.raw.err, fsErrPermission) => x.w.status = 403

\* a request was answered 403 because the store denied permission
C5_Witness ==
    \E x \in last :
        /\ x.op = "ServeHTTP"
        /\ ErrorsIs(x.raw.err, fsErrPermission)
        /\ x.w.status = 403

\* C6: CachingFS.Open returns what the store's Open returns for the path,
\* error included and untranslated, whether or not the path is resident, and
\* leaves the cache and the running loads as they were.
C6_OpenBypassesCache ==
    [][ \A x \in {y \in last' : y.op = "Open"} :
            /\ x.res = StoreOpen(store, x.target)
            /\ cache' = cache
            /\ inflight' = inflight
      ]_vars

\* Open of a resident path returned the store's content, which differs from
\* the resident bytes
C6_Witness ==
    \E x \in last :
        /\ x.op = "Open"
        /\ Resident(cache, x.target)
        /\ x.res # Ok(cache[x.target])

\* C7: as long as the store's content has not changed, every ReadFile of a
\* path the store can read returns the store's bytes for it, whatever was
\* evicted before.
C7_EvictionKeepsCorrectness ==
    changes = 0 =>
        \A x \in ReadFileCalls :
            StoreReadFile(store, x.target).err = NilErr =>
                x.res = StoreReadFile(store, x.target)

\* the store holds more paths than the cache may, and a path that had been
\* evicted was read again
C7_Witness ==
    /\ changes = 0
    /\ Cardinality({p \in CachePaths : store[p].err = NilErr}) > cfs.MaximumSize
    /\ \E x \in ReadFileCalls :
          /\ x.target \in evicted
          /\ ~x.hit
          /\ x.res = store[x.target]

C9_ConstructionRejects ==
    /\ built.ctor = "NewAssetServer" =>
          /\ built.route = EmptyStr => (built.err = ErrEmptyRoute /\ built.isNil)
          /\ (built.route # EmptyStr /\ built.files = "nil") =>
                (built.err = ErrNilFS /\ built.isNil)
          /\ built.isNil => server.isNil
    /\ built.ctor = "NewCachingFS" =>
          /\ built.files = "nil" => (built.err = ErrNilFS /\ built.isNil)
          /\ built.isNil => cfs.isNil

\* NewAssetServer was called with an empty route and a nil filesystem
C9_Witness ==
    /\ built.ctor = "NewAssetServer"
    /\ built.route = EmptyStr
    /\ built.files = "nil"
    /\ built.err = ErrEmptyRoute

\* C10: a server whose HeaderFunc was never assigned answers every successful
\* request with Cache-Control: private, max-age=604800.
C10_DefaultCacheControl ==
    (resp.served /\ resp.rf.err = NilErr /\ ~hfAssigned) =>
        HeaderGet(resp.w.sent, "Cache-Control") = "private, max-age=604800"

\* the first and the last character of a non-empty string
FirstChar(str) == str[1]
LastChar(str)  == str[Len(str)]

\* the conditions Check tests, in the order it tests them
RouteGiven      == server.route # EmptyStr
FilesGiven      == server.files # "nil"
BrotliSuffixOk  == server.BrotliSuffix = EmptyStr \/ FirstChar(server.BrotliSuffix) = "."
FSPrefixRelative == server.FSPrefix = EmptyStr \/ FirstChar(server.FSPrefix) # "/"
FSPrefixClosed  == server.FSPrefix = EmptyStr \/ LastChar(server.FSPrefix) = "/"

\* the server is as NewAssetServer returned it
Fresh ==
    /\ built.ctor = "NewAssetServer"
    /\ ~server.isNil
    /\ server.route = built.route
    /\ server.files = built.files
    /\ server.FSPrefix = EmptyStr
    /\ server.BrotliSuffix = EmptyStr
    /\ ~hfAssigned

\* what Check has returned, against the conditions in their order
CheckAnswer ==
    probe.op = "Check" =>
        /\ probe.err = NilErr <=>
              (RouteGiven /\ FilesGiven /\ BrotliSuffixOk /\ FSPrefixRelative
                 /\ FSPrefixClosed)
        /\ ~RouteGiven => probe.err = ErrEmptyRoute
        /\ (RouteGiven /\ ~FilesGiven) => probe.err = ErrNilFS
        /\ (RouteGiven /\ FilesGiven /\ ~BrotliSuffixOk) =>
              probe.err = ErrBadBrotliSuffix
        /\ (RouteGiven /\ FilesGiven /\ BrotliSuffixOk /\ ~FSPrefixRelative) =>
              probe.err = ErrAbsoluteFSPrefix
        /\ (RouteGiven /\ FilesGiven /\ BrotliSuffixOk /\ FSPrefixRelative
              /\ ~FSPrefixClosed) => probe.err = ErrBadFSPrefix
        /\ Fresh => probe.err = NilErr

\* Check was called on a server whose FSPrefix is absolute and does not end
\* with '/', and on which BrotliSuffix is well-formed
C11_Witness ==
    /\ probe.op = "Check"
    /\ RouteGiven /\ FilesGiven
    /\ server.BrotliSuffix = DotBr
    /\ ~FSPrefixRelative /\ ~FSPrefixClosed
    /\ probe.err = ErrAbsoluteFSPrefix

\* C11: Check returns nil exactly when the route is non-empty, the filesystem
\* is non-nil, BrotliSuffix is empty or starts with '.', and FSPrefix is empty
\* or relative and ending with '/'; otherwise it returns the error of the
\* first condition violated, in the order ErrEmptyRoute, ErrNilFS,
\* ErrBadBrotliSuffix, ErrAbsoluteFSPrefix, ErrBadFSPrefix; a server as
\* NewAssetServer returned it passes; and a call of Check leaves every field
\* of the server as it was.
C11_Check ==
    /\ []CheckAnswer
    /\ [][(probe'.op = "Check" /\ probe' # probe) => server' = server]_vars

----------------------------------------------------------------------------
(* The request served last *)

\* the request path with the route removed, and the path looked up for it
ReqPath     == TrimPrefix(resp.url, server.route)
LookupPath  == server.FSPrefix \o ReqPath
VariantPath == LookupPath \o server.BrotliSuffix

SuffixConfigured == server.BrotliSuffix # EmptyStr
NamesVariant     == HasSuffix(LookupPath, server.BrotliSuffix)

\* can the filesystem read p, and the bytes it holds for p
Readable(p) == p \in DOMAIN store /\ store[p].err = NilErr
BytesOf(p)  == store[p].data

\* the media type of the first rule of the table that matches path
RECURSIVE FirstMatch(_, _)
FirstMatch(typers, path) ==
    IF typers = <<>> THEN mimeTypeUnknown
    ELSE IF MatchString(Head(typers).expr, path) THEN Head(typers).mimeType
    ELSE FirstMatch(Tail(typers), path)

\* what the client has received
Status          == resp.w.status
Body            == resp.w.body
ContentType     == HeaderGet(resp.w.sent, "Content-Type")
ContentEncoding == HeaderGet(resp.w.sent, "Content-Encoding")

\* C12: with a suffix configured and a lookup path that does not end with it,
\* if the filesystem can read the path with the suffix appended, the response
\* is 200 with the bytes of that variant (also when the plain file exists),
\* Content-Encoding br, and the media type of the path without the suffix.
C12_VariantNegotiation ==
    (resp.served /\ SuffixConfigured /\ ~NamesVariant /\ Readable(VariantPath)) =>
        /\ Status = 200
        /\ Body = <<BytesOf(VariantPath)>>
        /\ ContentEncoding = brotliEncoding
        /\ ContentType = FirstMatch(server.typers, ReqPath)
        /\ resp.rf.reads = <<VariantPath>>

\* a file and its variant both exist, with different bytes, and the variant
\* was served
C12_Witness ==
    /\ resp.served /\ SuffixConfigured /\ ~NamesVariant
    /\ Readable(VariantPath) /\ Readable(LookupPath)
    /\ BytesOf(VariantPath) # BytesOf(LookupPath)
    /\ Body = <<BytesOf(VariantPath)>>
    /\ ContentType = mimeTypeJS

\* C13: with a suffix configured and a lookup path that does not end with it,
\* if the variant cannot be read and the path itself can, the response is 200
\* with the bytes and the media type of the path and no Content-Encoding.
C13_FallbackToPlain ==
    (resp.served /\ SuffixConfigured /\ ~NamesVariant
        /\ ~Readable(VariantPath) /\ Readable(LookupPath)) =>
        /\ Status = 200
        /\ Body = <<BytesOf(LookupPath)>>
        /\ ContentType = FirstMatch(server.typers, ReqPath)
        /\ ContentEncoding = ""
        /\ resp.rf.reads = <<VariantPath, LookupPath>>

\* a file without a variant was served after the variant had been looked up
C13_Witness ==
    /\ resp.served /\ SuffixConfigured /\ ~NamesVariant
    /\ ~Readable(VariantPath) /\ Readable(LookupPath)
    /\ Status = 200
    /\ Body = <<BytesOf(LookupPath)>>
    /\ Len(resp.rf.reads) = 2

\* C14: with a suffix configured and a lookup path that already ends with it,
\* the server reads the path itself and nothing else, and on success answers
\* 200 with its bytes, Content-Encoding br, and the media type of the path
\* with the suffix stripped.
C14_DirectCompressedName ==
    (resp.served /\ SuffixConfigured /\ NamesVariant) =>
        /\ resp.rf.reads = <<LookupPath>>
        /\ Readable(LookupPath) =>
              /\ Status = 200
              /\ Body = <<BytesOf(LookupPath)>>
              /\ ContentEncoding = brotliEncoding
              /\ ContentType =
                    FirstMatch(server.typers, TrimSuffix(ReqPath, server.BrotliSuffix))

\* a compressed name was requested and served as JavaScript
C14_Witness ==
    /\ resp.served /\ SuffixConfigured /\ NamesVariant
    /\ Readable(LookupPath)
    /\ Status = 200
    /\ ContentEncoding = brotliEncoding
    /\ ContentType = mimeTypeJS

\* the path a compressed name is the variant of
PlainPath == TrimSuffix(LookupPath, server.BrotliSuffix)

\* C15, as the specification words it: a request of a compressed name that the store does not
\* hold, while it holds the file without the suffix, is answered with that
\* plain file and no Content-Encoding.
C15_FallsBackToUnsuffixed ==
    (resp.served /\ SuffixConfigured /\ NamesVariant
        /\ ~Readable(LookupPath) /\ Readable(PlainPath)) =>
        /\ resp.rf.err = NilErr
        /\ Body = <<BytesOf(PlainPath)>>
        /\ ContentEncoding = ""

\* C15, as the code behaves: a request of a compressed name that the store does not hold
\* fails with the error of reading that name, whether or not the store holds
\* the file without the suffix: the plain file is not read, its bytes are not
\* sent, and under the default error policy the answer is 404.
C15_NoFallbackFromCompressedName ==
    (resp.served /\ SuffixConfigured /\ NamesVariant
        /\ ~Readable(LookupPath) /\ Readable(PlainPath)) =>
        /\ resp.rf.reads = <<LookupPath>>
        /\ resp.rf.err = StoreReadFile(store, LookupPath).err
        /\ BytesOf(PlainPath) \notin {Body[i] : i \in 1..Len(Body)}
        /\ ContentEncoding = ""
        /\ (server.ErrFunc = "DefaultErrFunc"
               /\ ErrorsIs(resp.rf.err, fsErrNotExist)) => Status = 404

\* a compressed name without a file was requested while the plain file
\* exists, and the answer was 404
C15_Witness ==
    /\ resp.served /\ SuffixConfigured /\ NamesVariant
    /\ ~Readable(LookupPath) /\ Readable(PlainPath)
    /\ LookupPath # PlainPath
    /\ Status = 404

\* C16: when BrotliSuffix is empty every request makes one filesystem read, of
\* the lookup path itself, and no response carries a Content-Encoding header,
\* also when the store holds a file named as the path followed by ".br".
C16_EmptySuffixNoVariant ==
    (resp.served /\ ~SuffixConfigured) =>
        /\ resp.rf.reads = <<LookupPath>>
        /\ ContentEncoding = ""
        /\ \A i \in 1..Len(resp.w.header) : resp.w.header[i][1] # "Content-Encoding"
        /\ Readable(LookupPath) => Body = <<BytesOf(LookupPath)>>

\* with no suffix configured a file that has a ".br" neighbour was served plain
C16_Witness ==
    /\ resp.served /\ ~SuffixConfigured
    /\ Readable(LookupPath) /\ Readable(LookupPath \o DotBr)
    /\ Body = <<BytesOf(LookupPath)>>
    /\ Status = 200

\* the requests that have just failed on a server with the default error
\* policy (the server on a CachingFS keeps the ErrFunc NewAssetServer set)
FailedRequests ==
    {x \in last : x.op = "ServeHTTP" /\ x.res.err # NilErr
                     /\ server.ErrFunc = "DefaultErrFunc"}

\* C17: DefaultErrFunc answers an error matching fs.ErrNotExist with 404,
\* otherwise one matching fs.ErrPermission with 403, otherwise 500, and in
\* every case writes the error's message text as the body.
C17_DefaultErrorPolicy ==
    \A x \in FailedRequests :
        /\ ErrorsIs(x.res.err, fsErrNotExist) => x.w.status = 404
        /\ (~ErrorsIs(x.res.err, fsErrNotExist)
              /\ ErrorsIs(x.res.err, fsErrPermission)) => x.w.status = 403
        /\ (~ErrorsIs(x.res.err, fsErrNotExist)
              /\ ~ErrorsIs(x.res.err, fsErrPermission)) => x.w.status = 500
        /\ x.w.body = <<ErrorText(x.res.err)>>

\* requests have been answered 500 for an error that is neither not-found nor
\* a permission error
C17_Witness ==
    \E x \in FailedRequests :
        /\ x.res.err = fsErrInvalid
        /\ x.w.status = 500
        /\ x.w.body = <<"invalid argument">>

\* C18: when the final read fails and ErrFunc is nil, ServeHTTP writes
\* nothing: no status, no header and no body.
C18_NilErrFuncWritesNothing ==
    (resp.served /\ resp.rf.err # NilErr /\ server.ErrFunc = NilFunc) =>
        /\ Status = 0
        /\ resp.w.header = <<>>
        /\ resp.w.sent = <<>>
        /\ Body = <<>>

\* a request failed on a server with no ErrFunc and with a HeaderFunc
C18_Witness ==
    /\ resp.served
    /\ ErrorsIs(resp.rf.err, fsErrPermission)
    /\ server.ErrFunc = NilFunc
    /\ server.HeaderFunc # NilFunc
    /\ resp.w = NewRecorder

\* the path whose media type was asked for, with a configured compressed
\* suffix stripped
InferredPath ==
    IF SuffixConfigured /\ HasSuffix(probe.path, server.BrotliSuffix)
    THEN SubSeq(probe.path, 1, Len(probe.path) - Len(server.BrotliSuffix))
    ELSE probe.path

\* the rules of the table that match the path
MatchingRules ==
    {i \in 1..Len(server.typers) : MatchString(server.typers[i].expr, InferredPath)}

\* C19: the media type inferred for a path is that of the first rule, in
\* table order, whose pattern matches the path with a configured compressed
\* suffix stripped, whatever later rules match, and application/octet-stream
\* when no rule matches.
C19_FirstMatchWins ==
    probe.op = "inferMimeType" =>
        /\ MatchingRules = {} => probe.mimeType = mimeTypeUnknown
        /\ \A i \in MatchingRules :
              (\A j \in MatchingRules : i <= j) =>
                  probe.mimeType = server.typers[i].mimeType
        /\ probe.mimeType = FirstMatch(server.typers, InferredPath)

\* with the rule for .min.css registered behind the built-in rule for .css,
\* a.min.css (asked for with the compressed suffix) was inferred as text/css
C19_Witness ==
    /\ probe.op = "inferMimeType"
    /\ probe.path = NameAMinCssBr
    /\ SuffixConfigured
    /\ Cardinality(MatchingRules) = 2
    /\ server.typers[Len(server.typers)] = Typer(minCssRegex, mimeTypeMin)
    /\ probe.mimeType = mimeTypeCSS

\* the request path without its first Len(route) characters, and that path
\* behind the FSPrefix
AfterRoute == SubSeq(resp.url, Len(server.route) + 1, Len(resp.url))
HandedPath == server.FSPrefix \o AfterRoute

\* C20: for a request path that starts with the route, the path handed to the
\* filesystem is FSPrefix followed by the request path with the route removed
\* once from its front (followed by the compressed suffix when the variant is
\* looked up); with an empty FSPrefix it is the route-stripped path alone.
C20_PrefixComposition ==
    (resp.served /\ HasPrefix(resp.url, server.route)) =>
        /\ resp.rf.reads # <<>>
        /\ \A i \in 1..Len(resp.rf.reads) :
              resp.rf.reads[i] \in {HandedPath, HandedPath \o server.BrotliSuffix}
        /\ ~SuffixConfigured => resp.rf.reads = <<HandedPath>>
        /\ (~SuffixConfigured /\ server.FSPrefix = EmptyStr) =>
              resp.rf.reads = <<AfterRoute>>

\* with route /s/ and FSPrefix p/ the request /s/o.js read p/o.js and was
\* served its bytes
C20_Witness ==
    /\ resp.served
    /\ server.route = StaticRoute
    /\ server.FSPrefix = <<"p", "/">>
    /\ resp.url = StaticRoute \o NameOJs
    /\ resp.rf.reads = <<NamePOJs>>
    /\ Body = <<"prefixed">>

----------------------------------------------------------------------------
(* The rule table, as the call made last left it *)

Registering == probe.op = "RegisterMimeType"
Removing    == probe.op = "RemoveMimeType"

\* the rule the call offered
OfferedRule == Typer(probe.expr, probe.mimeType)

\* C21: RegisterMimeType returns true exactly when no rule of the table
\* carried the media type, whatever the pattern and the priority flag, and a
\* rejected call leaves the table as it was.
C21_DuplicateRejected ==
    Registering =>
        /\ probe.ok <=> ~IsMimeTypeRegistered(probe.before, probe.mimeType)
        /\ ~probe.ok => server.typers = probe.before

\* a priority registration of a new pattern is rejected because a rule the
\* caller registered earlier carries the media type
C21_Witness ==
    /\ Registering
    /\ ~probe.ok
    /\ probe.priority
    /\ probe.mimeType = mimeTypeMin
    /\ \A i \in 1..Len(probe.before) : probe.before[i].expr # probe.expr
    /\ server.typers = probe.before

\* C22: a successful RegisterMimeType inserts exactly one rule, at the front
\* when priority is set and at the end otherwise, the rules already there
\* keep their order, and the media type is registered afterwards.
C22_InsertPosition ==
    (Registering /\ probe.ok) =>
        /\ Len(server.typers) = Len(probe.before) + 1
        /\ probe.priority => server.typers = <<OfferedRule>> \o probe.before
        /\ ~probe.priority => server.typers = probe.before \o <<OfferedRule>>
        /\ IsMimeTypeRegistered(server.typers, probe.mimeType)

\* a priority registration went in front of the built-in rules
C22_Witness ==
    /\ Registering
    /\ probe.ok
    /\ probe.priority
    /\ Len(probe.before) >= Len(buildDefaultTypers)
    /\ server.typers[1] = OfferedRule
    /\ server.typers[2] = Typer(cssRegex, mimeTypeCSS)

\* C23: after RemoveMimeType(m) returns true no rule carries m, and
\* RemoveMimeType of a media type no rule carries returns false and leaves
\* the table as it was.
C23_RemovedIsUnregistered ==
    Removing =>
        /\ probe.ok => ~IsMimeTypeRegistered(server.typers, probe.mimeType)
        /\ ~IsMimeTypeRegistered(probe.before, probe.mimeType) =>
               (~probe.ok /\ server.typers = probe.before)

\* the index of the first rule of the table that carries the media type
FirstRule(typers, mimeType) ==
    CHOOSE i \in 1..Len(typers) :
        /\ typers[i].mimeType = mimeType
        /\ \A j \in 1..(i - 1) : typers[j].mimeType # mimeType

\* C27: a successful RemoveMimeType(m) removes the first rule that carries m
\* and nothing else: the table is one rule shorter and the other rules keep
\* their order.
C27_RemovesFirstRuleOnly ==
    (Removing /\ probe.ok) =>
        LET target == FirstRule(probe.before, probe.mimeType)
        IN  /\ Len(server.typers) = Len(probe.before) - 1
            /\ \A i \in 1..Len(server.typers) :
                   server.typers[i] = probe.before[IF i < target THEN i ELSE i + 1]

\* image/jpeg is removed from the table NewAssetServer builds: the rule for
\* .jpeg goes, the one for .jpg, further on, stays
C27_Witness ==
    /\ Removing
    /\ probe.ok
    /\ probe.mimeType = mimeTypeJPG
    /\ probe.before = buildDefaultTypers
    /\ Len(server.typers) = Len(buildDefaultTypers) - 1
    /\ Typer(jpgRegex, mimeTypeJPG) \in {server.typers[i] : i \in 1..Len(server.typers)}
    /\ Typer(jpegRegex, mimeTypeJPG) \notin {server.typers[i] : i \in 1..Len(server.typers)}

----------------------------------------------------------------------------
(* Failed reads *)

\* the request failed and the default error policy answered it
DefaultPolicyAnswered ==
    resp.served /\ resp.rf.err # NilErr /\ server.ErrFunc = "DefaultErrFunc"

\* C26: under the default error policy the header set sent with the status
\* of a failed response holds Content-Type: text/plain.
C26_ErrorContentTypeCommitted ==
    DefaultPolicyAnswered => HeaderGet(resp.w.sent, "Content-Type") = mimeTypeText

\* the variant of the requested file was tried and could not be read
VariantFailed ==
    resp.served /\ SuffixConfigured /\ ~NamesVariant /\ ~Readable(VariantPath)

\* the error of reading the requested file itself
DirectErr == StoreReadFile(store, LookupPath).err

\* the status DefaultErrFunc gives an error
StatusOf(err) ==
    IF ErrorsIs(err, fsErrNotExist) THEN 404
    ELSE IF ErrorsIs(err, fsErrPermission) THEN 403 ELSE 500

\* C30: whatever error the read of the variant returns, it is not reported:
\* the file itself is read next and served when that read succeeds, and when
\* it fails the error handed to ErrFunc is the error of that second read.  No
\* request reads more than twice or is answered more than once.
C30_VariantFailureNotReported ==
    resp.served =>
        /\ Len(resp.rf.reads) <= 2
        /\ Len(Body) <= 1
        /\ VariantFailed =>
              /\ resp.rf.reads = <<VariantPath, LookupPath>>
              /\ resp.rf.err = DirectErr
              /\ Readable(LookupPath) =>
                    /\ Status = 200
                    /\ Body = <<BytesOf(LookupPath)>>
                    /\ ContentEncoding = ""
              /\ (~Readable(LookupPath) /\ server.ErrFunc = "DefaultErrFunc") =>
                    /\ Status = StatusOf(DirectErr)
                    /\ Body = <<ErrorText(DirectErr)>>
              /\ (~Readable(LookupPath) /\ server.ErrFunc = "CustomErrFunc") =>
                    /\ Status = 418
                    /\ Body = <<"custom error">>

\* the variant may not be read, the file can: the file is served
C30_Witness ==
    /\ VariantFailed
    /\ StoreReadFile(store, VariantPath).err = PathErrPermission
    /\ resp.rf.reads = <<NamePOJs \o DotBr, NamePOJs>>
    /\ Status = 200
    /\ Body = <<"prefixed">>

----------------------------------------------------------------------------
(* Requests of a server on a CachingFS *)

\* the requests that have just returned
ServedRequests == {x \in last : x.op = "ServeHTTP"}

\* the file a request asks for and its variant, as readFile names them
FileOf(x)    == FilePath(server, RequestedPath(server, x.url))
VariantOf(x) == BrotliPath(server, FileOf(x))

\* C29: a miss on the variant is not remembered.  A request whose variant
\* read failed got that failure from a read of the backing store, and while
\* the store holds no variant of the file every request for the file reads
\* the store for the variant and then turns to the file, resident or not.
C29_VariantMissNotRemembered ==
    \A x \in ServedRequests :
        TriesVariant(server, FileOf(x)) =>
            /\ x.first # Unset => (x.firstRaw # Unset /\ x.firstRaw.err # NilErr)
            /\ (changes = 0 /\ ErrorsIs(store[VariantOf(x)].err, fsErrNotExist)) =>
                  /\ x.reads = <<VariantOf(x), FileOf(x)>>
                  /\ x.firstRaw = store[VariantOf(x)]
                  /\ ErrorsIs(x.first.err, fsErrNotExist)
                  /\ ~Resident(cache, VariantOf(x))

\* the file was resident and served from the cache, and the store was still
\* read for the missing variant
C29_Witness ==
    \E x \in ServedRequests :
        /\ TriesVariant(server, FileOf(x))
        /\ x.firstRaw = Fail(PathErrNotExist)
        /\ x.hit
        /\ FileOf(x) \notin failed
        /\ x.res = Ok("d1")
        /\ x.w.status = 200

----------------------------------------------------------------------------
(* Requests of every method *)

\* C24: of a request only the path is consulted: when two requests with the
\* same path are served one after the other by the same server, whatever
\* their methods, Accept-Encoding headers and bodies, the second reads the
\* filesystem as the first did and gets the response the first got.
C24_OnlyThePathMatters ==
    [][ (resp.served /\ resp'.served /\ resp'.req.url = resp.req.url
            /\ server' = server /\ store' = store) =>
            (resp'.w = resp.w /\ resp'.rf = resp.rf) ]_vars

\* a HEAD request without Accept-Encoding was served the compressed variant,
\* body included
C24_Witness ==
    /\ resp.served
    /\ resp.req.method = "HEAD"
    /\ resp.req.accept = ""
    /\ resp.req.body = "payload"
    /\ Status = 200
    /\ Body = <<"compressed">>
    /\ ContentEncoding = brotliEncoding

\* the lookup path with a configured compressed suffix stripped, and the
\* request path behind the route likewise
StrippedLookupPath ==
    IF SuffixConfigured /\ NamesVariant THEN PlainPath ELSE LookupPath
StrippedReqPath ==
    IF SuffixConfigured /\ HasSuffix(ReqPath, server.BrotliSuffix)
    THEN TrimSuffix(ReqPath, server.BrotliSuffix) ELSE ReqPath

\* C25, as the specification words it: the Content-Type of a successful
\* response is what the rule table gives for the lookup path, FSPrefix
\* included, with the compressed suffix stripped.
C25_TypeOfLookupPath ==
    (resp.served /\ Status = 200) =>
        ContentType = FirstMatch(server.typers, StrippedLookupPath)

\* C25, as the code behaves: the Content-Type of a successful response is
\* what the rule table gives for the request path behind the route, without
\* the FSPrefix, with the compressed suffix stripped; a rule that matches only
\* inside the FSPrefix does not decide it.
C25_TypeOfRequestPath ==
    (resp.served /\ Status = 200) =>
        ContentType = FirstMatch(server.typers, StrippedReqPath)

\* p/o.js was served for /s/o.js by a server whose first rule matches "p/":
\* the response is typed as JavaScript
C25_Witness ==
    /\ resp.served
    /\ Status = 200
    /\ server.FSPrefix = <<"p", "/">>
    /\ server.typers[1] = Typer(dirRegex, mimeTypeDir)
    /\ resp.rf.reads[Len(resp.rf.reads)] = NamePOJs
    /\ FirstMatch(server.typers, StrippedLookupPath) = mimeTypeDir
    /\ ContentType = mimeTypeJS

\* the headers HeaderFunc adds for the bytes it is given
HeaderFuncHeaders(data) ==
    IF server.HeaderFunc = NilFunc THEN <<>>
    ELSE CallHeaderFunc(server.HeaderFunc, NewRecorder, data).header

\* the headers ServeHTTP adds itself on success
OwnHeaders ==
    <<<<"Content-Type", FirstMatch(server.typers, StrippedReqPath)>>>>
        \o (IF resp.rf.isBrotli THEN <<<<"Content-Encoding", brotliEncoding>>>>
            ELSE <<>>)

\* C28: on a successful request HeaderFunc is invoked once, with the bytes
\* that become the body, before Content-Type and Content-Encoding are added
\* and before the status is written; on a failed request it is not invoked
\* and ServeHTTP adds neither Content-Type nor Content-Encoding.
C28_HeaderFuncOrder ==
    resp.served =>
        /\ resp.rf.err = NilErr =>
              /\ Status = 200
              /\ Len(Body) = 1
              /\ resp.w.header = HeaderFuncHeaders(Body[1]) \o OwnHeaders
              /\ resp.w.sent = resp.w.header
        /\ resp.rf.err # NilErr =>
              /\ resp.w.header =
                     (IF server.ErrFunc = NilFunc THEN <<>>
                      ELSE CallErrFunc(server.ErrFunc, NewRecorder, resp.rf.err).header)
              /\ HeaderGet(resp.w.header, "Content-Encoding") = ""
              /\ \A i \in 1..Len(resp.w.header) :
                     resp.w.header[i][1] \notin {"ETag", "X-Custom", "Cache-Control"}

\* the header function was handed the compressed bytes and its header comes
\* first, before Content-Type and Content-Encoding
C28_Witness ==
    /\ resp.served
    /\ server.HeaderFunc = "EtagHeaderFunc"
    /\ Status = 200
    /\ resp.w.sent = << <<"ETag", "compressed">>, <<"Content-Type", mimeTypeJS>>,
                        <<"Content-Encoding", brotliEncoding>> >>
    /\ Body = <<"compressed">>

====
